---- MODULE Spec2Model ----
(***************************************************************************)
(* Verification model of the inference core of DeepPhonemizer:             *)
(*   dp/model.py    get_dedup_tokens, LstmModel, ForwardTransformer,       *)
(*                  AutoregressiveTransformer, load_checkpoint             *)
(*   dp/dataset.py  BinnedLengthSampler, new_dataloader                    *)
(*                                                                         *)
(* Numbers: a logit is a small integer; a probability is a fixed-point     *)
(* value in thousandths (0..1000 stands for 0.0..1.0).  Softmax is         *)
(* computed as torch computes it, exp(x - max) / sum, in that fixed point. *)
(* A symbol vector over the vocabulary is a sequence whose index s+1       *)
(* holds the entry of symbol id s.                                         *)
(***************************************************************************)
EXTENDS Integers, Sequences, FiniteSets, TLC

VARIABLES
    \* get_dedup_tokens
    logits_batch, dd_i, out_tokens, out_probs, dd_pc,
    \* AutoregressiveTransformer.generate
    max_len, start_index, end_index, out_indices, out_logits, gen_steps,
    gen_result, gen_pc,
    \* load_checkpoint and a model's life: the checkpoint, the model's class,
    \* self.training, the step buffer, the error raised; and two history
    \* variables, the step the model was obtained with and the forward calls
    \* made on it in training mode
    checkpoint, model, training, step, error, step0, train_forwards,
    \* generate of LstmModel and ForwardTransformer on a padded batch: the
    \* class, the samples' real lengths, the width of x, the logits forward
    \* returns for x, the bias of LstmModel.lin, the output of generate for
    \* x, and the output it gave for x before zero ids were appended
    na_model, x_len, x_width, na_logits, lin_bias, na_out, na_out0,
    \* BinnedLengthSampler: the constructor's arguments, self.idx (the numpy
    \* array __iter__ works on shares its memory), the loop index, the bins
    \* (views of idx, kept as their offsets), binned_idx and the place in
    \* __iter__
    phoneme_lens, batch_size, bin_size, idx, bin_i, bins, binned_idx, it_pc

dedupVars == <<logits_batch, dd_i, out_tokens, out_probs, dd_pc>>
genVars == <<max_len, start_index, end_index, out_indices, out_logits,
             gen_steps, gen_result, gen_pc>>
modelVars == <<checkpoint, model, training, step, error, step0, train_forwards>>
padVars == <<na_model, x_len, x_width, na_logits, lin_bias, na_out, na_out0>>
samplerVars == <<phoneme_lens, batch_size, bin_size, idx, bin_i, bins,
                 binned_idx, it_pc>>
vars == <<dedupVars, genVars, modelVars, padVars, samplerVars>>

\* what a step of one component leaves alone
notDedup == <<genVars, modelVars, padVars, samplerVars>>
notGen == <<dedupVars, modelVars, padVars, samplerVars>>
notModel == <<dedupVars, genVars, padVars, samplerVars>>
notPad == <<dedupVars, genVars, modelVars, samplerVars>>
notSampler == <<dedupVars, genVars, modelVars, padVars>>

----------------------------------------------------------------------------
(* Bounds of the model *)

\* largest number of frames T of a logit batch
MaxFrames == 3

\* largest max_len of a generate call
MaxLen == 2

\* largest value of a model's step counter
MaxStep == 3

\* largest real length of an input row, and most zero columns appended
MaxInputLen == 2
MaxPadding == 1

\* most items of a dataset, longest phoneme sequence, largest batch_size
MaxItems == 4
MaxPhonemeLen == 2
MaxBatchSize == 2

\* bin_size=batch_size*3 in new_dataloader
BinFactor == 3

\* the samples of a batch (batch size 2), and the output vocabulary ids
Samples == {1, 2}
Symbols == {0, 1, 2}

\* the logit vectors a network emits for one frame in this model: symbol 0
\* wins, symbol 1 wins weakly, symbol 1 wins strongly, symbol 2 wins
FrameLogits == {<<2, 0, 0>>, <<0, 1, 0>>, <<0, 3, 0>>, <<0, 0, 2>>}

----------------------------------------------------------------------------
(* Fixed-point arithmetic *)

RECURSIVE SeqSum(_)
SeqSum(s) == IF s = <<>> THEN 0 ELSE Head(s) + SeqSum(Tail(s))

SeqMax(s) == CHOOSE m \in {s[k] : k \in DOMAIN s} : \A k \in DOMAIN s : s[k] <= m

\* exp(x / 1000) * 1000 for x <= 0: e^-1 = 0.368 per whole unit, and the
\* alternating series 1 - y + y^2/2 - y^3/6 + y^4/24 - y^5/120 (Horner) below
RECURSIVE Exp(_)
Exp(x) ==
    IF x <= -1000 THEN (Exp(x + 1000) * 368) \div 1000
    ELSE LET y  == -x
             t5 == 1000 - (y \div 5)
             t4 == 1000 - ((y * t5) \div 4000)
             t3 == 1000 - ((y * t4) \div 3000)
             t2 == 1000 - ((y * t3) \div 2000)
         IN  1000 - ((y * t2) \div 1000)

\* tensor.softmax(-1) of one vector of fixed-point values
Softmax(v) ==
    LET m == SeqMax(v)
        e == [k \in DOMAIN v |-> Exp(v[k] - m)]
        z == SeqSum(e)
    IN  [k \in DOMAIN v |-> (1000 * e[k]) \div z]

\* a vector of integer logits as fixed-point values
Fixed(l) == [k \in DOMAIN l |-> 1000 * l[k]]

\* the symbol id of the first maximal entry (torch.max / argmax over the
\* vocabulary axis)
ArgMax(v) ==
    (CHOOSE k \in DOMAIN v :
        /\ v[k] = SeqMax(v)
        /\ \A j \in DOMAIN v : j < k => v[j] < v[k]) - 1

----------------------------------------------------------------------------
(* get_dedup_tokens *)

\* mutant: the mask is not applied, every frame is kept
KeepAllPositions(max_indices, t) == [k \in t..Len(max_indices) |-> k]

\* the positions of a row's frames whose arg-max is not 0, in frame order
\* (the boolean mask max_indices != 0)
RECURSIVE NonZeroPositions(_, _)
NonZeroPositions(max_indices, t) ==
    IF t > Len(max_indices) THEN <<>>
    ELSE IF max_indices[t] # 0
         THEN <<t>> \o NonZeroPositions(max_indices, t + 1)
         ELSE NonZeroPositions(max_indices, t + 1)

\* tensor[mask]
MaskSelect(tensor, positions) == [k \in DOMAIN positions |-> tensor[positions[k]]]

\* torch.unique_consecutive(x, return_counts=True): the first element of
\* every block of equal consecutive elements, and the blocks' sizes
RECURSIVE UniqueConsecutive(_)
UniqueConsecutive(x) ==
    IF x = <<>> THEN [tokens |-> <<>>, counts |-> <<>>]
    ELSE LET rest == UniqueConsecutive(Tail(x))
         IN  IF rest.tokens # <<>> /\ Head(rest.tokens) = Head(x)
             THEN [tokens |-> rest.tokens,
                   counts |-> <<Head(rest.counts) + 1>> \o Tail(rest.counts)]
             ELSE [tokens |-> <<Head(x)>> \o rest.tokens,
                   counts |-> <<1>> \o rest.counts]

\* mutant: the probability of the run's first frame instead of its maximum
RunProbFirst(max_logits, ind, c) == max_logits[ind + 1]

\* max_logits[ind:ind + c].max()
RunProb(max_logits, ind, c) == SeqMax(SubSeq(max_logits, ind + 1, ind + c))

\* for c in counts: append the run's probability, ind = ind + c
RECURSIVE RunProbs(_, _, _)
RunProbs(max_logits, counts, ind) ==
    IF counts = <<>> THEN <<>>
    ELSE <<RunProb(max_logits, ind, Head(counts))>>
         \o RunProbs(max_logits, Tail(counts), ind + Head(counts))

\* logits_batch.softmax(-1) on one frame, tabulated over the frames of the model
FrameSoftmax == [l \in FrameLogits |-> Softmax(Fixed(l))]

\* one pass of the loop over the batch: the collapsed row of one sample
DedupRowOf(logits) ==
    LET probs       == [t \in DOMAIN logits |-> FrameSoftmax[logits[t]]]
        all_max     == [t \in DOMAIN logits |-> SeqMax(probs[t])]
        all_indices == [t \in DOMAIN logits |-> ArgMax(probs[t])]
        keep        == NonZeroPositions(all_indices, 1)
        max_logits  == MaskSelect(all_max, keep)
        max_indices == MaskSelect(all_indices, keep)
        uc          == UniqueConsecutive(max_indices)
    IN  [tokens |-> uc.tokens,
         probs  |-> RunProbs(max_logits, uc.counts, 0)]

\* mutant: the rows are returned ragged, nothing is padded
PadSequenceRagged(rows, v) == rows

\* pad_sequence(rows, batch_first=True, padding_value=v)
PadSequence(rows, v) ==
    LET width == SeqMax([b \in DOMAIN rows |-> Len(rows[b])])
    IN  [b \in DOMAIN rows |->
            [k \in 1..width |-> IF k <= Len(rows[b]) THEN rows[b][k] ELSE v]]

\* the whole function
GetDedupTokens(batch) ==
    LET rows == [b \in DOMAIN batch |-> DedupRowOf(batch[b])]
    IN  [tokens |-> PadSequence([b \in DOMAIN batch |-> rows[b].tokens], 0),
         probs  |-> PadSequence([b \in DOMAIN batch |-> rows[b].probs], 0)]

\* the batches of logits of T frames
LogitBatches(T) == [Samples -> [1..T -> FrameLogits]]

\* the function is not running
DedupIdle ==
    /\ logits_batch = <<>>
    /\ dd_i = 0
    /\ out_tokens = <<>>
    /\ out_probs = <<>>
    /\ dd_pc = "idle"

DedupStart ==
    /\ \E T \in 1..MaxFrames : logits_batch \in LogitBatches(T)
    /\ dd_i = 0
    /\ out_tokens = <<>>
    /\ out_probs = <<>>
    /\ dd_pc = "loop"

\* for i in range(logits_batch.size(0)): ...
DedupRow ==
    /\ dd_pc = "loop"
    /\ dd_i < Len(logits_batch)
    /\ LET row == DedupRowOf(logits_batch[dd_i + 1])
       IN  /\ out_tokens' = Append(out_tokens, row.tokens)
           /\ out_probs' = Append(out_probs, row.probs)
    /\ dd_i' = dd_i + 1
    /\ UNCHANGED <<logits_batch, dd_pc, notDedup>>

\* the two pad_sequence calls and the return
DedupReturn ==
    /\ dd_pc = "loop"
    /\ dd_i = Len(logits_batch)
    /\ out_tokens' = PadSequence(out_tokens, 0)
    /\ out_probs' = PadSequence(out_probs, 0)
    /\ dd_pc' = "returned"
    /\ UNCHANGED <<logits_batch, dd_i, notDedup>>

----------------------------------------------------------------------------
(* AutoregressiveTransformer.generate.  The encoder memory and the decoder *)
(* stack are the network: at every step they give fc_out's logits for the  *)
(* newest position of every sample, any of FrameLogits.                    *)

GenIdle ==
    /\ max_len = 0
    /\ start_index = <<>>
    /\ end_index = 0
    /\ out_indices = <<>>
    /\ out_logits = <<>>
    /\ gen_steps = 0
    /\ gen_result = <<>>
    /\ gen_pc = "idle"

\* the call, up to out_indices = start_index.unsqueeze(0), out_logits = []
GenStart ==
    /\ max_len \in 0..MaxLen
    /\ end_index \in Symbols
    /\ start_index \in [Samples -> Symbols]
    /\ out_indices = <<start_index>>
    /\ out_logits = <<>>
    /\ gen_steps = 0
    /\ gen_result = <<>>
    /\ gen_pc = "loop"

\* stop_rows: whether a sample's column of indices holds the end symbol
StopRows(indices) ==
    [n \in Samples |-> \E t \in DOMAIN indices : indices[t][n] = end_index]

\* mutant: a sample that has the end symbol is fed the end symbol again
NextTokensHoldEnd(output) ==
    [n \in Samples |->
        IF StopRows(out_indices)[n] THEN end_index ELSE ArgMax(output[n])]

\* out_tokens = output.argmax(2)[-1:, :]
NextTokens(output) == [n \in Samples |-> ArgMax(output[n])]

\* torch.sum(stop_rows) == batch_size
AllStopped(indices) ==
    Cardinality({n \in Samples : StopRows(indices)[n]}) = Cardinality(Samples)

\* one pass of for i in range(max_len)
DecodeStep ==
    /\ gen_pc = "loop"
    /\ gen_steps < max_len
    /\ \E fc_out \in [Samples -> FrameLogits] :
          LET output == [n \in Samples |-> FrameSoftmax[fc_out[n]]]
              indices == Append(out_indices, NextTokens(output))
          IN  /\ out_logits' = Append(out_logits, output)
              /\ out_indices' = indices
              /\ gen_pc' = IF AllStopped(indices) THEN "post" ELSE "loop"
    /\ gen_steps' = gen_steps + 1
    /\ UNCHANGED <<max_len, start_index, end_index, gen_result, notGen>>

\* range(max_len) is exhausted
LoopEnd ==
    /\ gen_pc = "loop"
    /\ gen_steps = max_len
    /\ gen_pc' = "post"
    /\ UNCHANGED <<max_len, start_index, end_index, out_indices, out_logits,
                   gen_steps, gen_result, notGen>>

\* out_probs = ones; out_probs[i, j+1] = out_logits.softmax(-1)[i, j].max()
OutProbs(indices, logits) ==
    [n \in Samples |->
        [j \in 1..Len(indices) |->
            IF j = 1 THEN 1000 ELSE SeqMax(Softmax(logits[j - 1][n]))]]

\* the rest of the call when a step was taken: transpose, and the confidences
GenReturn ==
    /\ gen_pc = "post"
    /\ out_logits # <<>>
    /\ gen_result' =
           [indices |-> [n \in Samples |->
                            [j \in 1..Len(out_indices) |-> out_indices[j][n]]],
            probs   |-> OutProbs(out_indices, out_logits)]
    /\ gen_pc' = "returned"
    /\ UNCHANGED <<max_len, start_index, end_index, out_indices, out_logits,
                   gen_steps, notGen>>

\* torch.cat(out_logits, dim=0) of an empty list raises RuntimeError
GenRaise ==
    /\ gen_pc = "post"
    /\ out_logits = <<>>
    /\ gen_pc' = "raised"
    /\ UNCHANGED <<max_len, start_index, end_index, out_indices, out_logits,
                   gen_steps, gen_result, notGen>>

----------------------------------------------------------------------------
(* The three models' step counter, and load_checkpoint *)

\* the type tags a checkpoint's config may carry in this model
TypeTags == {"lstm", "transformer", "autoreg_transformer", "gru", ""}

ModelIdle ==
    /\ checkpoint = <<>>
    /\ model = "none"
    /\ training = FALSE
    /\ step = 0
    /\ error = <<>>
    /\ step0 = 0
    /\ train_forwards = 0

\* no model yet; a checkpoint file holds a config and a saved step buffer
ModelStart ==
    /\ checkpoint \in [type : TypeTags, step : 1..MaxStep]
    /\ model = "none"
    /\ training = FALSE
    /\ step = 0
    /\ error = <<>>
    /\ step0 = 0
    /\ train_forwards = 0

\* supported_types = ['lstm', 'transformer']
supported_types == <<"lstm", "transformer">>

\* the if / elif chain over model_type: the class built, or "none" for the
\* else branch
ModelClassOf(model_type) ==
    IF model_type = "lstm" THEN "LstmModel"
    ELSE IF model_type = "transformer" THEN "ForwardTransformer"
    ELSE IF model_type = "autoreg_transformer" THEN "AutoregressiveTransformer"
    ELSE "none"

\* X.from_config(config): a new module, in training mode, its step buffer 1
FromConfig ==
    /\ model = "none"
    /\ error = <<>>
    /\ ModelClassOf(checkpoint.type) # "none"
    /\ model' = ModelClassOf(checkpoint.type)
    /\ training' = TRUE
    /\ step' = 1
    /\ step0' = 1
    /\ UNCHANGED <<checkpoint, error, train_forwards, notModel>>

\* load_checkpoint on a supported tag: from_config, load_state_dict (the step
\* buffer is part of the state), model.eval()
LoadCheckpoint ==
    /\ model = "none"
    /\ error = <<>>
    /\ ModelClassOf(checkpoint.type) # "none"
    /\ model' = ModelClassOf(checkpoint.type)
    /\ step' = checkpoint.step
    /\ step0' = checkpoint.step
    /\ training' = FALSE
    /\ UNCHANGED <<checkpoint, error, train_forwards, notModel>>

\* load_checkpoint on any other tag: raise ValueError(f'Model type not
\* supported: {model_type}. Supported types: {supported_types}')
LoadCheckpointRaise ==
    /\ model = "none"
    /\ error = <<>>
    /\ ModelClassOf(checkpoint.type) = "none"
    /\ error' = [type |-> "ValueError",
                 model_type |-> checkpoint.type,
                 supported_types |-> supported_types]
    /\ UNCHANGED <<checkpoint, model, training, step, step0, train_forwards,
                   notModel>>

\* model.train() and model.eval()
Train ==
    /\ model # "none"
    /\ training' = TRUE
    /\ UNCHANGED <<checkpoint, model, step, error, step0, train_forwards, notModel>>

Eval ==
    /\ model # "none"
    /\ training' = FALSE
    /\ UNCHANGED <<checkpoint, model, step, error, step0, train_forwards, notModel>>

\* if self.training: self.step += 1
StepAfterForward == IF training THEN step + 1 ELSE step

\* a forward call of the caller, on any of the three models
Forward ==
    /\ model # "none"
    /\ StepAfterForward <= MaxStep
    /\ step' = StepAfterForward
    /\ train_forwards' = IF training THEN train_forwards + 1 ELSE train_forwards
    /\ UNCHANGED <<checkpoint, model, training, error, step0, notModel>>

\* LstmModel.generate and ForwardTransformer.generate: self.forward(x, ...)
\* and get_dedup_tokens
GenerateByForward ==
    /\ model \in {"LstmModel", "ForwardTransformer"}
    /\ StepAfterForward <= MaxStep
    /\ step' = StepAfterForward
    /\ UNCHANGED <<checkpoint, model, training, error, step0, train_forwards,
                   notModel>>

\* AutoregressiveTransformer.generate: the encoder and decoder are called,
\* forward is not
GenerateAutoregressive ==
    /\ model = "AutoregressiveTransformer"
    /\ UNCHANGED <<checkpoint, model, training, step, error, step0,
                   train_forwards, notModel>>

----------------------------------------------------------------------------
(* LstmModel.generate and ForwardTransformer.generate on a padded batch.   *)
(* x is a batch of rows of ids, row b real on its first x_len[b] columns   *)
(* and 0 after them.  The network is a function of its weights: it gives   *)
(* any of FrameLogits on a frame.  ForwardTransformer.forward returns one  *)
(* frame per column of x, the padded columns too (the padding mask keeps   *)
(* them from being attended to as keys; the frames of the other columns    *)
(* stay as they are when columns are appended).  LstmModel.forward, given  *)
(* x_len, packs the rows: pad_packed_sequence returns max(x_len) frames,   *)
(* zeros on a row's padded frames, which self.lin maps to its bias.        *)

PadIdle ==
    /\ na_model = "none"
    /\ x_len = <<>>
    /\ x_width = 0
    /\ na_logits = <<>>
    /\ lin_bias = <<>>
    /\ na_out = <<>>
    /\ na_out0 = <<>>

LongestRow(lens) == SeqMax(lens)

PadStart ==
    /\ na_model \in {"LstmModel", "ForwardTransformer"}
    /\ x_len \in [Samples -> 1..MaxInputLen]
    /\ x_width = LongestRow(x_len)
    /\ lin_bias \in IF na_model = "LstmModel" THEN FrameLogits ELSE {<<>>}
    /\ na_logits \in [Samples -> [1..x_width -> FrameLogits]]
    /\ na_model = "LstmModel" =>
           \A b \in Samples : \A t \in 1..x_width :
               t > x_len[b] => na_logits[b][t] = lin_bias
    /\ na_out = <<>>
    /\ na_out0 = <<>>

\* generate(x, x_len): forward under no_grad, then get_dedup_tokens
GenerateNonAutoregressive ==
    /\ na_model # "none"
    /\ na_out = <<>>
    /\ na_out' = GetDedupTokens(na_logits)
    /\ na_out0' = IF x_width = LongestRow(x_len)
                  THEN GetDedupTokens(na_logits) ELSE na_out0
    /\ UNCHANGED <<na_model, x_len, x_width, na_logits, lin_bias, notPad>>

\* the caller appends a column of zero ids to x; forward on the wider x
\* returns, for ForwardTransformer, one more frame per row
AppendZeroColumn ==
    /\ na_model # "none"
    /\ na_out # <<>>
    /\ x_width < LongestRow(x_len) + MaxPadding
    /\ x_width' = x_width + 1
    /\ IF na_model = "ForwardTransformer"
       THEN \E frame \in [Samples -> FrameLogits] :
                na_logits' = [b \in Samples |-> Append(na_logits[b], frame[b])]
       ELSE na_logits' = na_logits
    /\ na_out' = <<>>
    /\ UNCHANGED <<na_model, x_len, lin_bias, na_out0, notPad>>

----------------------------------------------------------------------------
(* BinnedLengthSampler.  Dataset indices are 0..n-1; position p of a       *)
(* sequence here is position p-1 of the array.                             *)

SamplerIdle ==
    /\ phoneme_lens = <<>>
    /\ batch_size = 0
    /\ bin_size = 0
    /\ idx = <<>>
    /\ bin_i = 0
    /\ bins = <<>>
    /\ binned_idx = <<>>
    /\ it_pc = "idle"

\* the sequences random.shuffle can leave in place of s
Shuffles(s) == {[k \in DOMAIN s |-> s[p[k]]] : p \in Permutations(DOMAIN s)}

\* the results torch.sort can give for the indices: they list every index
\* once, by non-decreasing length (the order of equal lengths is not fixed)
SortedIndices(lens) ==
    {[k \in DOMAIN lens |-> p[k] - 1] : p \in
        {q \in Permutations(DOMAIN lens) :
            \A j, k \in DOMAIN lens : j < k => lens[q[j]] <= lens[q[k]]}}

\* __init__, and __iter__ up to bins = []; bin_size is a multiple of
\* batch_size (the assert), batch_size*3 in new_dataloader
SamplerStart ==
    /\ \E n \in 0..MaxItems : phoneme_lens \in [1..n -> 1..MaxPhonemeLen]
    /\ batch_size \in 1..MaxBatchSize
    /\ \E f \in 1..BinFactor : bin_size = batch_size * f
    /\ idx \in SortedIndices(phoneme_lens)
    /\ bin_i = 0
    /\ bins = <<>>
    /\ binned_idx = <<>>
    /\ it_pc = "bins"

\* idx[i * bin_size:(i + 1) * bin_size]
BinSlice(i) == SubSeq(idx, i * bin_size + 1, (i + 1) * bin_size)

\* one pass of for i in range(len(idx) // self.bin_size): the slice is a
\* view, so shuffling it shuffles idx in place
ShuffleBin ==
    /\ it_pc = "bins"
    /\ bin_i < Len(idx) \div bin_size
    /\ \E this_bin \in Shuffles(BinSlice(bin_i)) :
           idx' = SubSeq(idx, 1, bin_i * bin_size) \o this_bin
                  \o SubSeq(idx, (bin_i + 1) * bin_size + 1, Len(idx))
    /\ bins' = Append(bins, bin_i)
    /\ bin_i' = bin_i + 1
    /\ UNCHANGED <<phoneme_lens, batch_size, bin_size, binned_idx, it_pc,
                   notSampler>>

\* self.random.shuffle(bins)
ShuffleBins ==
    /\ it_pc = "bins"
    /\ bin_i = Len(idx) \div bin_size
    /\ bins' \in Shuffles(bins)
    /\ it_pc' = "stack"
    /\ UNCHANGED <<phoneme_lens, batch_size, bin_size, idx, bin_i, binned_idx,
                   notSampler>>

\* np.stack(bins).reshape(-1)
RECURSIVE StackBins(_)
StackBins(bs) ==
    IF bs = <<>> THEN <<>> ELSE BinSlice(Head(bs)) \o StackBins(Tail(bs))

Stack ==
    /\ it_pc = "stack"
    /\ bins # <<>>
    /\ binned_idx' = StackBins(bins)
    /\ it_pc' = "last"
    /\ UNCHANGED <<phoneme_lens, batch_size, bin_size, idx, bin_i, bins,
                   notSampler>>

\* np.stack of an empty list raises ValueError (need at least one array)
StackRaise ==
    /\ it_pc = "stack"
    /\ bins = <<>>
    /\ it_pc' = "raised"
    /\ UNCHANGED <<phoneme_lens, batch_size, bin_size, idx, bin_i, bins,
                   binned_idx, notSampler>>

\* if len(binned_idx) < len(idx): shuffle the rest and append it; return
LastBin ==
    /\ it_pc = "last"
    /\ IF Len(binned_idx) < Len(idx)
       THEN \E last_bin \in Shuffles(SubSeq(idx, Len(binned_idx) + 1, Len(idx))) :
                /\ idx' = SubSeq(idx, 1, Len(binned_idx)) \o last_bin
                /\ binned_idx' = binned_idx \o last_bin
       ELSE UNCHANGED <<idx, binned_idx>>
    /\ it_pc' = "returned"
    /\ UNCHANGED <<phoneme_lens, batch_size, bin_size, bin_i, bins, notSampler>>

----------------------------------------------------------------------------
(* Specifications *)

DedupInit == DedupStart /\ GenIdle /\ ModelIdle /\ PadIdle /\ SamplerIdle

DedupNext == DedupRow \/ DedupReturn

SpecDedup == DedupInit /\ [][DedupNext]_vars

GenInit == GenStart /\ DedupIdle /\ ModelIdle /\ PadIdle /\ SamplerIdle

GenNext == DecodeStep \/ LoopEnd \/ GenReturn \/ GenRaise

SpecGenerate == GenInit /\ [][GenNext]_vars

ModelInit == ModelStart /\ DedupIdle /\ GenIdle /\ PadIdle /\ SamplerIdle

ModelNext ==
    \/ FromConfig \/ LoadCheckpoint \/ LoadCheckpointRaise
    \/ Train \/ Eval
    \/ Forward \/ GenerateByForward \/ GenerateAutoregressive

SpecModel == ModelInit /\ [][ModelNext]_vars

PadInit == PadStart /\ DedupIdle /\ GenIdle /\ ModelIdle /\ SamplerIdle

PadNext == GenerateNonAutoregressive \/ AppendZeroColumn

SpecPad == PadInit /\ [][PadNext]_vars

SamplerInit == SamplerStart /\ DedupIdle /\ GenIdle /\ ModelIdle /\ PadIdle

SamplerNext == ShuffleBin \/ ShuffleBins \/ Stack \/ StackRaise \/ LastBin

SpecSampler == SamplerInit /\ [][SamplerNext]_vars

----------------------------------------------------------------------------
(* Properties of get_dedup_tokens.  They are stated from the source frame  *)
(* sequence by sets of frame positions, not by the operators above.        *)

\* the arg-max symbols of the frames of sample b, and their probabilities
FrameSymbols(b) == [t \in DOMAIN logits_batch[b] |-> ArgMax(logits_batch[b][t])]
FrameProbs(b) ==
    [t \in DOMAIN logits_batch[b] |-> SeqMax(FrameSoftmax[logits_batch[b][t]])]

\* the k-th smallest and the largest member of a set of positions
Kth(S, k) == CHOOSE t \in S : Cardinality({u \in S : u <= t}) = k
Last(S) == CHOOSE t \in S : \A u \in S : u <= t

\* in a sequence a of arg-max symbols: the frames that open a maximal block
\* of consecutive frames with the same non-zero symbol
RawRunStarts(a) ==
    {t \in DOMAIN a : a[t] # 0 /\ (t = 1 \/ a[t - 1] # a[t])}

\* the frames with a non-zero symbol, and those of them whose symbol differs
\* from the symbol of the non-zero frame before them (zero frames skipped)
NonZeroFrames(a) == {t \in DOMAIN a : a[t] # 0}
KeptRunStarts(a) ==
    LET nz == NonZeroFrames(a)
    IN  {t \in nz :
            LET before == {u \in nz : u < t}
            IN  before = {} \/ a[Last(before)] # a[t]}

\* the frames collapsed into the k-th token, starts being KeptRunStarts(a)
CollapsedFrames(a, starts, k) ==
    {t \in NonZeroFrames(a) : Cardinality({u \in starts : u <= t}) = k}

\* the rows collapsed so far, before right-padding
Collapsed(b) == dd_pc = "loop" /\ b <= dd_i

\* C2 as stated: a sample's tokens are the symbols of the maximal runs of
\* identical non-zero arg-max symbols of its source frame sequence, one per
\* run, in frame order.
C2_OnePerRawRun ==
    \A b \in Samples : Collapsed(b) =>
        LET a == FrameSymbols(b)
            starts == RawRunStarts(a)
        IN  /\ Len(out_tokens[b]) = Cardinality(starts)
            /\ \A k \in DOMAIN out_tokens[b] : out_tokens[b][k] = a[Kth(starts, k)]

\* C2 amended: a sample's tokens are the symbols of the maximal runs of
\* identical symbols of its arg-max sequence after the frames with arg-max 0
\* have been removed, one per run, in frame order; runs of one symbol that
\* only zero frames separate are one run.
C2_OnePerKeptRun ==
    \A b \in Samples : Collapsed(b) =>
        LET a == FrameSymbols(b)
            starts == KeptRunStarts(a)
        IN  /\ Len(out_tokens[b]) = Cardinality(starts)
            /\ \A k \in DOMAIN out_tokens[b] : out_tokens[b][k] = a[Kth(starts, k)]

\* a collapsed row whose frames hold the same symbol on both sides of a
\* zero frame, and its one token
C2_Witness ==
    \E b \in Samples : \E t \in DOMAIN logits_batch[b] :
        /\ Collapsed(b)
        /\ t > 1 /\ t + 1 \in DOMAIN logits_batch[b]
        /\ FrameSymbols(b)[t] = 0
        /\ FrameSymbols(b)[t - 1] # 0
        /\ FrameSymbols(b)[t - 1] = FrameSymbols(b)[t + 1]
        /\ Len(out_tokens[b]) = 1

\* C3: the k-th confidence of a sample is the maximum of the per-frame
\* arg-max probabilities over exactly the frames collapsed into its k-th
\* token, and those frames all hold the k-th token's symbol.
C3_ConfidenceIsRunMax ==
    \A b \in Samples : Collapsed(b) =>
        LET a == FrameSymbols(b)
            p == FrameProbs(b)
            starts == KeptRunStarts(a)
        IN  /\ Len(out_probs[b]) = Len(out_tokens[b])
            /\ \A k \in DOMAIN out_probs[b] :
                   LET run == CollapsedFrames(a, starts, k)
                   IN  /\ run # {}
                       /\ \A t \in run : a[t] = out_tokens[b][k] /\ p[t] <= out_probs[b][k]
                       /\ \E t \in run : p[t] = out_probs[b][k]

\* a token collapsed from three frames whose middle frame has the greatest
\* probability: the maximum is not the first, not the last, not the mean
C3_Witness ==
    \E b \in Samples :
        /\ Collapsed(b)
        /\ Len(out_probs[b]) = 1
        /\ NonZeroFrames(FrameSymbols(b)) = {1, 2, 3}
        /\ FrameProbs(b)[2] > FrameProbs(b)[1]
        /\ FrameProbs(b)[2] > FrameProbs(b)[3]
        /\ out_probs[b][1] = FrameProbs(b)[2]

\* the collapsed length of sample b, and the largest of the batch
CollapsedLen(b) == Cardinality(KeptRunStarts(FrameSymbols(b)))
MaxCollapsed == Last({CollapsedLen(b) : b \in Samples})

\* C8: the returned token and confidence arrays are both of shape
\* (B, Lmax), Lmax the largest collapsed length; a row holds its sample's
\* tokens (non-zero) leftmost with their confidences, and id 0 with
\* confidence 0 on every other position.
C8_RectangularZeroPadded ==
    dd_pc = "returned" =>
        LET width == MaxCollapsed
        IN  /\ DOMAIN out_tokens = Samples
            /\ DOMAIN out_probs = Samples
            /\ \A b \in Samples :
                   LET a == FrameSymbols(b)
                       starts == KeptRunStarts(a)
                       n == Cardinality(starts)
                   IN  /\ Len(out_tokens[b]) = width
                       /\ Len(out_probs[b]) = width
                       /\ \A k \in 1..width :
                              IF k <= n
                              THEN /\ out_tokens[b][k] = a[Kth(starts, k)]
                                   /\ out_tokens[b][k] # 0
                                   /\ out_probs[b][k] > 0
                              ELSE /\ out_tokens[b][k] = 0
                                   /\ out_probs[b][k] = 0

\* a returned batch with a sample of collapsed length 0 (every frame has
\* arg-max 0) beside a sample of collapsed length 2: an all-zero row
C8_Witness ==
    /\ dd_pc = "returned"
    /\ \E b, c \in Samples :
           /\ NonZeroFrames(FrameSymbols(b)) = {}
           /\ CollapsedLen(c) = 2
           /\ out_tokens[b] = <<0, 0>>
           /\ out_probs[b] = <<0, 0>>
           /\ out_tokens[c][2] # 0

----------------------------------------------------------------------------
(* Properties of AutoregressiveTransformer.generate *)

\* the loop has ended; the call has returned
LoopOver == gen_pc \in {"post", "returned", "raised"}
Returned == gen_pc = "returned"

\* sample n emitted the end symbol at decode step k (steps count from 1;
\* step k appends row k + 1 of out_indices, row 1 is the start symbol)
EmittedEnd(n, k) == out_indices[k + 1][n] = end_index

\* every sample has emitted the end symbol at one of the steps 1..k
AllEmittedBy(k) == \A n \in Samples : \E j \in 1..k : EmittedEnd(n, j)

\* a call that keeps the reserved ids apart: the end symbol is not the pad
\* id 0 and no sample's start symbol is the end symbol
ProperCall == end_index # 0 /\ \A n \in Samples : start_index[n] # end_index

\* the loop ran to the first step by which every sample had emitted the end
\* symbol, or max_len steps, whichever came first, and nothing was raised
StoppedAtFirstAllEndOrMaxLen ==
    LoopOver =>
        /\ \A k \in 0..(gen_steps - 1) : ~AllEmittedBy(k)
        /\ gen_steps = max_len \/ AllEmittedBy(gen_steps)
        /\ gen_pc # "raised"

\* C1 as stated, for the calls that keep the reserved ids apart: the loop
\* stops at the first step by which every sample has emitted the end
\* symbol, or after max_len steps, whichever comes first, and the call
\* returns the sequence without an error.
C1_StopsAtFirstAllEndOrMaxLen == ProperCall => StoppedAtFirstAllEndOrMaxLen

\* what holds of the code: the same with max_len at least 1
StopsAtFirstAllEndOrMaxLenFromOne ==
    (ProperCall /\ max_len >= 1) => StoppedAtFirstAllEndOrMaxLen

\* C4 as stated, for the same calls: the confidences have the shape of the tokens, lie in
\* [0, 1], are 1.0 at position 0, and at position j+1 are the maximum
\* probability of the distribution recorded at decode step j.
C4_ConfidenceIsRecordedMax ==
    (ProperCall /\ Returned) =>
        \A n \in Samples :
            /\ Len(gen_result.probs[n]) = Len(gen_result.indices[n])
            /\ gen_result.probs[n][1] = 1000
            /\ \A j \in 1..Len(out_logits) :
                   /\ gen_result.probs[n][j + 1] \in 0..1000
                   /\ gen_result.probs[n][j + 1] = SeqMax(out_logits[j][n])

\* the positions of a returned row that hold the end symbol
EndPositions(n) ==
    {j \in DOMAIN gen_result.indices[n] : gen_result.indices[n][j] = end_index}

\* C9 as stated, for the same calls: every position of a returned row after the row's first end
\* symbol holds the end symbol.
C9_EndSymbolRepeats ==
    (ProperCall /\ Returned) =>
        \A n \in Samples : \A j \in DOMAIN gen_result.indices[n] :
            (\E e \in EndPositions(n) : e < j) => j \in EndPositions(n)

\* C9 amended: every decode step appends to every sample's decoder input,
\* finished or not, exactly one symbol, the arg-max of the distribution
\* that step recorded for the sample; what follows an end symbol is that
\* arg-max, whatever it is.
C9_EveryStepAppendsArgMax ==
    /\ gen_pc # "idle" =>
           /\ Len(out_indices) = gen_steps + 1
           /\ Len(out_logits) = gen_steps
           /\ \A k \in 1..gen_steps : \A n \in Samples :
                  out_indices[k + 1][n] = ArgMax(out_logits[k][n])
    /\ Returned =>
           \A n \in Samples :
               /\ Len(gen_result.indices[n]) = gen_steps + 1
               /\ \A j \in 1..(gen_steps + 1) :
                      gen_result.indices[n][j] = out_indices[j][n]

\* a returned row in which a symbol other than the end symbol follows the
\* end symbol the sample emitted
C9_Witness ==
    /\ Returned
    /\ ProperCall
    /\ \E n \in Samples :
           /\ EmittedEnd(n, 1)
           /\ gen_steps >= 2
           /\ gen_result.indices[n][3] # end_index

----------------------------------------------------------------------------
(* Properties of the step counter and of load_checkpoint *)

\* C5: on each of the three models the step counter has been incremented
\* once per forward call made in training mode and by nothing else: it is
\* the step the model was obtained with plus the number of those calls.
C5_StepCountsTrainingForwards ==
    model # "none" => step = step0 + train_forwards

\* the tags load_checkpoint builds a model for
AcceptedTags == {t \in TypeTags : ModelClassOf(t) # "none"}

\* C7: load_checkpoint accepts exactly lstm, transformer and
\* autoreg_transformer, and for any other tag raises, with no model built,
\* an error that names the tag and, as the supported set, the tags accepted.
C7_ErrorNamesAcceptedTags ==
    /\ AcceptedTags = {"lstm", "transformer", "autoreg_transformer"}
    /\ model # "none" => checkpoint.type \in AcceptedTags /\ error = <<>>
    /\ error # <<>> =>
           /\ checkpoint.type \notin AcceptedTags
           /\ model = "none"
           /\ error.model_type = checkpoint.type
           /\ {error.supported_types[k] : k \in DOMAIN error.supported_types}
                  = AcceptedTags

----------------------------------------------------------------------------
(* Padding invariance of the non-autoregressive generate *)

\* C6: appending zero ids to the right of every input row does not change
\* the (tokens, confidence) output of generate.
C6_PaddingLeavesOutput == na_out # <<>> => na_out = na_out0

\* the rest of C6: the frames at a row's padded positions give no token, the
\* row's tokens are those of its real frames
C6_PaddedFramesGiveNoToken ==
    na_out # <<>> =>
        \A b \in Samples :
            LET real == DedupRowOf(SubSeq(na_logits[b], 1, x_len[b])).tokens
            IN  SubSeq(na_out.tokens[b], 1, Len(real)) = real
                /\ \A k \in DOMAIN na_out.tokens[b] :
                       k > Len(real) => na_out.tokens[b][k] = 0

----------------------------------------------------------------------------
(* One iteration of BinnedLengthSampler *)

\* nothing was raised, and what was returned lists every index once
YieldedEveryIndexOnce ==
    /\ it_pc # "raised"
    /\ it_pc = "returned" =>
           /\ Len(binned_idx) = Len(phoneme_lens)
           /\ \A d \in 0..(Len(phoneme_lens) - 1) :
                  Cardinality({k \in DOMAIN binned_idx : binned_idx[k] = d}) = 1

\* C10, for a dataset that is not empty: an iteration completes without
\* error and yields every dataset index 0..n-1 exactly once, n =
\* len(sampler), also when n is smaller than bin_size.
C10_YieldsEveryIndexOnce == Len(phoneme_lens) >= 1 => YieldedEveryIndexOnce

\* what holds of the code: the same for a dataset of at least bin_size items
YieldsEveryIndexOnceFromOneBin ==
    Len(phoneme_lens) >= bin_size => YieldedEveryIndexOnce

====
